---- MODULE Spec2Model ----
(***************************************************************************)
(* Budget Tracker API (src/main.py, src/schemas.py).                       *)
(*                                                                         *)
(* Three MongoDB collections (category, budget, expense) and the request   *)
(* handlers over them.  Handlers are plain `def` functions, which FastAPI  *)
(* runs on a thread pool, so the database operations of two requests may   *)
(* interleave; a handler's separate database calls are separate steps      *)
(* where another request can change what the next call sees.               *)
(*                                                                         *)
(* Modelling conventions                                                   *)
(*   - a collection is the sequence of its documents in natural order;     *)
(*   - Optional[T] / None is a sequence of length at most one:             *)
(*     << >> is None and <<v>> is the value v;                             *)
(*   - a Python dict is a function on its key set;                         *)
(*   - float amounts are integers; the quotient spent / target * 100 is    *)
(*     kept exact as the fraction [num |-> spent * 100, den |-> target];   *)
(*   - an ObjectId is [oid |-> n]; its hex string str(ObjectId) is n.      *)
(***************************************************************************)
EXTENDS Integers, Sequences, FiniteSets, TLC

\* ---------------------------------------------------------------- bounds
MaxAmount == 1
MaxCategories == 1
MaxAllocs == 2
MaxExpenses == 2
MaxBudgets == 2

\* ---------------------------------------------------------------- inputs
Procs == {"p1", "p2"}
Client == "p1"
Months == {"2024-01", "2024-02"}
\* Request bodies take the extremes of each field: a negative and the largest
\* amount; a negative, a zero and the largest target; the category_id of no
\* category (0 is the hex string of no ObjectId) and that of the newest one.
Amounts == {-1, MaxAmount}
Targets == {-1, 0, MaxAmount}
CategoryIds == {0, MaxCategories}
None == << >>

SeqsUpTo(S, n) == UNION {[1 .. k -> S] : k \in 0 .. n}

CategoryInputs == {[name |-> "Food", emoji |-> <<"burger">>], [name |-> "Rent", emoji |-> None]}
AllocationInputs == [category_id : CategoryIds, target : Targets]
BudgetInputs(n) ==
    [month : Months, income : Amounts, allocations : SeqsUpTo(AllocationInputs, n)]
ExpenseInputs == [month : Months, category_id : CategoryIds, amount : Amounts, note : {None}]

VARIABLES
    db_category,    \* db["category"]
    db_budget,      \* db["budget"]
    db_expense,     \* db["expense"]
    pc,             \* per request thread: position inside create_budget
    budget,         \* per request thread: create_budget's parameter `budget`
    deleted,        \* per request thread: deleted_count of its delete_many
    inserted_id,    \* per request thread: create_budget's `inserted_id`
    resp,           \* the HTTP response sent by the step just taken
    calls           \* the last two create_budget requests completed by Client

vars == <<db_category, db_budget, db_expense, pc, budget, deleted, inserted_id, resp, calls>>
stores == <<db_category, db_budget, db_expense>>
locals == <<pc, budget, deleted, inserted_id>>

\* ------------------------------------------------------- pydantic schemas
\* Allocation.target: float = Field(..., ge=0)
AllocationValid(a) == a.target >= 0

\* BudgetCreate: income is a bare float, allocations are validated Allocations
BudgetCreateValid(b) == \A i \in 1 .. Len(b.allocations) : AllocationValid(b.allocations[i])

\* ExpenseCreate: amount is a bare float
ExpenseCreateValid(e) == TRUE

\* --------------------------------------------------------------- helpers
ObjectId(s) == [oid |-> s]
str(o) == o.oid

Range(s) == {s[i] : i \in 1 .. Len(s)}

\* a fresh ObjectId: one carried by no stored document and by no request
\* thread that still holds an inserted_id
FreshOid(coll) ==
    LET used == {str(d._id) : d \in Range(coll)} \cup {inserted_id[p] : p \in Procs}
    IN  ObjectId(CHOOSE n \in 1 .. Cardinality(used) + 1 :
                    n \notin used /\ \A k \in 1 .. n - 1 : k \in used)

\* database.create_document: insert the data as one document, return its id
CreateDocument(coll, data, oid) == Append(coll, data @@ ("_id" :> oid))

serialize_doc(doc) ==
    IF doc = None THEN doc
    ELSE LET d == doc[1]
         IN  <<[k \in (DOMAIN d \ {"_id"}) \cup {"id"} |->
                    IF k = "id" THEN str(d._id) ELSE d[k]]>>

\* fault variant: delete_one in place of delete_many
RECURSIVE DeleteOne(_, _)
DeleteOne(coll, month) ==
    IF coll = << >> THEN << >>
    ELSE IF Head(coll).month = month THEN Tail(coll)
    ELSE <<Head(coll)>> \o DeleteOne(Tail(coll), month)

\* collection.delete_many({"month": month})
DeleteMany(coll, month) == SelectSeq(coll, LAMBDA d : d.month # month)

\* fault variant: find_one without the month filter
FindOneAny(coll, month) ==
    IF coll = << >> THEN {None} ELSE {<<d>> : d \in Range(coll)}

\* collection.find_one({"month": month}): the possible results.  The query
\* has no sort, so with several matches any of them may come back.
FindOneMonth(coll, month) ==
    LET hits == {d \in Range(coll) : d.month = month}
    IN  IF hits = {} THEN {None} ELSE {<<d>> : d \in hits}

\* collection.find_one({"_id": oid})
FindOneId(coll, oid) ==
    LET hits == {d \in Range(coll) : d._id = oid}
    IN  IF hits = {} THEN None ELSE <<CHOOSE d \in hits : TRUE>>

NoResponse == [handler |-> "none", arg |-> None, status |-> 0, body |-> None]
\* arg is the path parameter of a GET request, None for a POST
Response(h, a, s, b) == [handler |-> h, arg |-> a, status |-> s, body |-> b]

\* ------------------------------------------------------ summary (pure part)
\* main.py 132-137: income and allocations_map of the budget document found
income_of(budget_doc) == IF budget_doc = None THEN 0 ELSE budget_doc[1].income

\* fault variant: the first entry of a category_id wins (dict.setdefault)
RECURSIVE AllocFoldFirst(_, _)
AllocFoldFirst(allocs, map) ==
    IF allocs = << >> THEN map
    ELSE LET a == Head(allocs)
         IN  AllocFoldFirst(Tail(allocs),
                 [k \in DOMAIN map \cup {a.category_id} |->
                     IF k \in DOMAIN map THEN map[k] ELSE a.target])

allocations_map_first(budget_doc) ==
    IF budget_doc = None THEN << >> ELSE AllocFoldFirst(budget_doc[1].allocations, << >>)

\* the loop of main.py 136-137: allocations_map[category_id] = target
RECURSIVE AllocFold(_, _)
AllocFold(allocs, map) ==
    IF allocs = << >> THEN map
    ELSE LET a == Head(allocs)
         IN  AllocFold(Tail(allocs),
                 [k \in DOMAIN map \cup {a.category_id} |->
                     IF k = a.category_id THEN a.target ELSE map[k]])

allocations_map(budget_doc) ==
    IF budget_doc = None THEN << >> ELSE AllocFold(budget_doc[1].allocations, << >>)

\* the $group stage: {"_id": "$category_id", "spent": {"$sum": "$amount"}}
RECURSIVE Group(_, _)
Group(docs, acc) ==
    IF docs = << >> THEN acc
    ELSE LET e == Head(docs)
         IN  Group(Tail(docs),
                 [k \in DOMAIN acc \cup {e.category_id} |->
                     (IF k \in DOMAIN acc THEN acc[k] ELSE 0)
                   + (IF k = e.category_id THEN e.amount ELSE 0)])

\* main.py 140-144: $match on the month, then $group
spent_by_cat(expense, month) ==
    Group(SelectSeq(expense, LAMBDA e : e.month = month), << >>)

\* dict.get(key, default)
Get(map, key, default) == IF key \in DOMAIN map THEN map[key] ELSE default

\* sum(dict.values())
RECURSIVE SumValues(_)
SumValues(map) ==
    IF DOMAIN map = {} THEN 0
    ELSE LET k == CHOOSE x \in DOMAIN map : TRUE
         IN  map[k] + SumValues([x \in DOMAIN map \ {k} |-> map[x]])

\* fault variant: the guard is target >= 0
progress_ge(spent, target) ==
    IF target >= 0 THEN <<[num |-> spent * 100, den |-> target]>> ELSE None

\* main.py 159: (spent / target * 100) if target > 0 else None
progress(spent, target) ==
    IF target > 0 THEN <<[num |-> spent * 100, den |-> target]>> ELSE None

\* main.py 151-160: the row of one category
Row(cat, amap, smap) ==
    LET cat_id == str(cat._id)
        target == Get(amap, cat_id, 0)
        spent  == Get(smap, cat_id, 0)
    IN  [id |-> cat_id, name |-> cat.name, emoji |-> cat.emoji,
         target |-> target, spent |-> spent, progress |-> progress(spent, target)]

\* fault variant: rows only for the categories that have spend this month
categories_summary_spent(category, amap, smap) ==
    LET seen == SelectSeq(category, LAMBDA c : str(c._id) \in DOMAIN smap)
    IN  [i \in 1 .. Len(seen) |-> Row(seen[i], amap, smap)]

\* main.py 147-160: one row per document of db["category"]
categories_summary(category, amap, smap) ==
    [i \in 1 .. Len(category) |-> Row(category[i], amap, smap)]

\* fault variant: no clamp
remaining_raw(income, total_spent) == income - total_spent

\* main.py 170: max(income - total_spent, 0.0)
remaining(income, total_spent) ==
    IF income - total_spent > 0 THEN income - total_spent ELSE 0

\* fault variant: total_spent added up from the rows
summary_body_rows(month, budget_doc, expense, category) ==
    LET amap == allocations_map(budget_doc)
        smap == spent_by_cat(expense, month)
        income == income_of(budget_doc)
        rows == categories_summary(category, amap, smap)
        total_spent == SumValues([r \in 1 .. Len(rows) |-> rows[r].spent])
    IN  [month |-> month, income |-> income, total_target |-> SumValues(amap),
         total_spent |-> total_spent,
         remaining |-> remaining(income, total_spent),
         categories |-> rows]

\* main.py 132-172: the summary object built from the three reads
summary_body(month, budget_doc, expense, category) ==
    LET amap == allocations_map(budget_doc)
        smap == spent_by_cat(expense, month)
        income == income_of(budget_doc)
        total_target == SumValues(amap)
        total_spent == SumValues(smap)
    IN  [month |-> month, income |-> income, total_target |-> total_target,
         total_spent |-> total_spent,
         remaining |-> remaining(income, total_spent),
         categories |-> categories_summary(category, amap, smap)]

\* ---------------------------------------------------------------- handlers
Idle(p) == pc[p] = "idle"

\* POST /api/categories
create_category(p, c) ==
    /\ Idle(p)
    /\ Len(db_category) < MaxCategories
    /\ LET oid == ObjectId(Len(db_category) + 1)
       IN  /\ db_category' = CreateDocument(db_category, c, oid)
           /\ resp' = Response("create_category", None, 200,
                               serialize_doc(FindOneId(db_category', oid)))
    /\ UNCHANGED <<db_budget, db_expense, locals>>

\* POST /api/budgets with a body pydantic rejects
create_budget_invalid(p, b) ==
    /\ Idle(p)
    /\ ~BudgetCreateValid(b)
    /\ resp' = Response("create_budget", None, 422, None)
    /\ UNCHANGED <<stores, locals>>

\* POST /api/budgets, main.py 95-96: delete_many
create_budget_delete(p, b) ==
    /\ Idle(p)
    /\ BudgetCreateValid(b)
    /\ Len(DeleteMany(db_budget, b.month))
         + Cardinality({q \in Procs : pc[q] = "insert"}) < MaxBudgets
    /\ db_budget' = DeleteMany(db_budget, b.month)
    /\ deleted' = [deleted EXCEPT ![p] = Len(db_budget) - Len(db_budget')]
    /\ budget' = [budget EXCEPT ![p] = <<b>>]
    /\ pc' = [pc EXCEPT ![p] = "insert"]
    /\ resp' = NoResponse
    /\ UNCHANGED <<db_category, db_expense, inserted_id>>

\* POST /api/budgets, main.py 97: create_document
create_budget_insert(p) ==
    /\ pc[p] = "insert"
    /\ LET oid == FreshOid(db_budget)
       IN  /\ db_budget' = CreateDocument(db_budget, budget[p][1], oid)
           /\ inserted_id' = [inserted_id EXCEPT ![p] = str(oid)]
    /\ pc' = [pc EXCEPT ![p] = "find"]
    /\ resp' = NoResponse
    /\ UNCHANGED <<db_category, db_expense, budget, deleted>>

\* POST /api/budgets, main.py 98-99: find_one by _id and return
create_budget_find(p) ==
    /\ pc[p] = "find"
    /\ resp' = Response("create_budget", None, 200,
                        serialize_doc(FindOneId(db_budget, ObjectId(inserted_id[p]))))
    /\ pc' = [pc EXCEPT ![p] = "idle"]
    /\ budget' = [budget EXCEPT ![p] = None]
    /\ deleted' = [deleted EXCEPT ![p] = 0]
    /\ inserted_id' = [inserted_id EXCEPT ![p] = 0]
    /\ UNCHANGED stores

\* GET /api/budgets/{month}
get_budget(p, month) ==
    /\ Idle(p)
    /\ \E doc \in FindOneMonth(db_budget, month) :
         resp' = IF doc = None
                 THEN Response("get_budget", <<month>>, 404, <<"Budget not found for month">>)
                 ELSE Response("get_budget", <<month>>, 200, serialize_doc(doc))
    /\ UNCHANGED <<stores, locals>>

\* POST /api/expenses
add_expense(p, e) ==
    /\ Idle(p)
    /\ ExpenseCreateValid(e)
    /\ Len(db_expense) < MaxExpenses
    /\ LET oid == ObjectId(Len(db_expense) + 1)
       IN  /\ db_expense' = CreateDocument(db_expense, e, oid)
           /\ resp' = Response("add_expense", None, 200,
                               serialize_doc(FindOneId(db_expense', oid)))
    /\ UNCHANGED <<db_category, db_budget, locals>>

\* fault variant: a missing budget is an error, as in get_budget
summary_strict(p, month) ==
    /\ Idle(p)
    /\ \E budget_doc \in FindOneMonth(db_budget, month) :
         resp' = IF budget_doc = None
                 THEN Response("summary", <<month>>, 404, <<"Budget not found for month">>)
                 ELSE Response("summary", <<month>>, 200,
                               <<summary_body(month, budget_doc, db_expense, db_category)>>)
    /\ UNCHANGED <<stores, locals>>

\* GET /api/summary/{month}
summary(p, month) ==
    /\ Idle(p)
    /\ \E budget_doc \in FindOneMonth(db_budget, month) :
         resp' = Response("summary", <<month>>, 200,
                          <<summary_body(month, budget_doc, db_expense, db_category)>>)
    /\ UNCHANGED <<stores, locals>>

\* ------------------------------------------------- concurrent request threads
NoLocals ==
    /\ pc = [p \in Procs |-> "idle"]
    /\ budget = [p \in Procs |-> None]
    /\ deleted = [p \in Procs |-> 0]
    /\ inserted_id = [p \in Procs |-> 0]

Init ==
    /\ db_category = << >>
    /\ db_budget = << >>
    /\ db_expense = << >>
    /\ NoLocals
    /\ resp = NoResponse
    /\ calls = << >>

\* request bodies sent by the concurrent clients: budgets with no allocation
\* or one invalid allocation, expenses of one month and category
RaceBudgetInputs ==
    {b \in BudgetInputs(1) :
        \A i \in 1 .. Len(b.allocations) :
            b.allocations[i] = [category_id |-> MaxCategories, target |-> -1]}
RaceExpenseInputs ==
    {e \in ExpenseInputs : e.month = "2024-01" /\ e.category_id = MaxCategories}

Next ==
    \/ \E p \in Procs, b \in RaceBudgetInputs : create_budget_invalid(p, b) /\ UNCHANGED calls
    \/ \E p \in Procs, b \in RaceBudgetInputs : create_budget_delete(p, b) /\ UNCHANGED calls
    \/ \E p \in Procs : create_budget_insert(p) /\ UNCHANGED calls
    \/ \E p \in Procs : create_budget_find(p) /\ UNCHANGED calls
    \/ \E p \in Procs, m \in Months : get_budget(p, m) /\ UNCHANGED calls
    \/ \E p \in Procs, e \in RaceExpenseInputs : add_expense(p, e) /\ UNCHANGED calls

Spec == Init /\ [][Next]_vars

\* ------------------------------------------- one client, one request at a time
\* request bodies sent by the client: budgets with at most one allocation,
\* naming the newest category
SeqBudgetInputs ==
    {b \in BudgetInputs(1) :
        \A i \in 1 .. Len(b.allocations) :
            /\ b.allocations[i].category_id = MaxCategories
            /\ b.allocations[i].target # 0}

\* the collection left by inserting the given documents in order
Inserted(docs) == [i \in 1 .. Len(docs) |-> docs[i] @@ ("_id" :> ObjectId(i))]

Last2(s) == IF Len(s) > 2 THEN Tail(s) ELSE s

\* The budget collection starts with whatever earlier requests left in it:
\* no budget, one per month, or several for one month (left by a race).
InitSeq ==
    /\ db_category = << >>
    /\ db_expense = << >>
    /\ \E docs \in SeqsUpTo({b \in SeqBudgetInputs : BudgetCreateValid(b)}, MaxBudgets) :
         db_budget = Inserted(docs)
    /\ NoLocals
    /\ resp = NoResponse
    /\ calls = << >>

NextSeq ==
    \/ \E c \in CategoryInputs : create_category(Client, c) /\ UNCHANGED calls
    \/ \E b \in SeqBudgetInputs : create_budget_invalid(Client, b) /\ UNCHANGED calls
    \/ \E b \in SeqBudgetInputs : create_budget_delete(Client, b) /\ UNCHANGED calls
    \/ create_budget_insert(Client) /\ UNCHANGED calls
    \/ create_budget_find(Client) /\ calls' = Last2(Append(calls, budget[Client][1]))
    \/ \E m \in Months : get_budget(Client, m) /\ UNCHANGED calls

SpecSeq == InitSeq /\ [][NextSeq]_vars

\* --------------------------------------------- the summary over stored data
\* Stored data that accepted requests can leave: categories, expenses, and a
\* budget collection holding no budget, one budget, or several budgets with
\* empty allocation lists (of two months, or of one month after a race).
InitSummary ==
    /\ \E n \in 0 .. MaxCategories :
         db_category = Inserted([k \in 1 .. n |->
                                   IF k % 2 = 1 THEN [name |-> "Food", emoji |-> <<"burger">>]
                                                ELSE [name |-> "Rent", emoji |-> None]])
    /\ \E docs \in SeqsUpTo({e \in ExpenseInputs : ExpenseCreateValid(e)}, MaxExpenses) :
         db_expense = Inserted(docs)
    /\ \E docs \in {<< >>}
                     \cup {<<b>> : b \in {x \in BudgetInputs(MaxAllocs) : BudgetCreateValid(x)}}
                     \cup [1 .. MaxBudgets -> BudgetInputs(0)] :
         db_budget = Inserted(docs)
    /\ NoLocals
    /\ resp = NoResponse
    /\ calls = << >>

NextSummary ==
    \E m \in Months : summary(Client, m) /\ UNCHANGED calls

SpecSummary == InitSummary /\ [][NextSummary]_vars

\* ================================================================ properties
\* Reference definitions, written against the stored documents directly.
AllIdle == \A p \in Procs : pc[p] = "idle"
BudgetsOf(m) == {i \in 1 .. Len(db_budget) : db_budget[i].month = m}
ExpensesOf(m) == {i \in 1 .. Len(db_expense) : db_expense[i].month = m}
ExpensesOfCat(m, c) == {i \in ExpensesOf(m) : db_expense[i].category_id = c}
StoredCategoryIds == {str(db_category[i]._id) : i \in 1 .. Len(db_category)}
OrphanExpensesOf(m) == {i \in ExpensesOf(m) : db_expense[i].category_id \notin StoredCategoryIds}

RECURSIVE SumAmount(_)
SumAmount(I) ==
    IF I = {} THEN 0
    ELSE LET i == CHOOSE x \in I : TRUE IN db_expense[i].amount + SumAmount(I \ {i})

RECURSIVE SumSpent(_)
SumSpent(rows) == IF rows = << >> THEN 0 ELSE Head(rows).spent + SumSpent(Tail(rows))

\* the target of the last allocation of category c in the list
LastTarget(allocs, c) ==
    LET I == {i \in 1 .. Len(allocs) : allocs[i].category_id = c}
    IN  allocs[CHOOSE i \in I : \A j \in I : j <= i].target

RECURSIVE SumLastTargets(_, _)
SumLastTargets(allocs, C) ==
    IF C = {} THEN 0
    ELSE LET c == CHOOSE x \in C : TRUE
         IN  LastTarget(allocs, c) + SumLastTargets(allocs, C \ {c})

AllocIds(allocs) == {allocs[i].category_id : i \in 1 .. Len(allocs)}

IsSummary == resp.handler = "summary"
SumMonth == resp.arg[1]
SumBody == resp.body[1]
SumRows == SumBody.categories
RowIdx == 1 .. Len(SumRows)

\* C1: once no create_budget call is in progress, the budget collection
\* holds at most one document per month.
C1_AtMostOneBudgetPerMonth ==
    AllIdle => \A m \in Months : Cardinality(BudgetsOf(m)) <= 1

\* C2: after two create_budget calls for the same month, the second started
\* after the first returned, the collection holds exactly one budget for that
\* month, carrying the second call's income and allocations.
C2_UpsertTwice ==
    (pc[Client] = "idle" /\ Len(calls) = 2 /\ calls[1].month = calls[2].month) =>
        /\ Cardinality(BudgetsOf(calls[2].month)) = 1
        /\ \A i \in BudgetsOf(calls[2].month) :
              /\ db_budget[i].income = calls[2].income
              /\ db_budget[i].allocations = calls[2].allocations

C2_Witness ==
    /\ pc[Client] = "idle" /\ Len(calls) = 2
    /\ calls[1].month = calls[2].month
    /\ calls[1].income # calls[2].income
    /\ calls[1].allocations # calls[2].allocations
    /\ resp.handler = "create_budget" /\ resp.status = 200
    /\ Len(db_budget) = 2

\* C3: the summary's remaining is max(income - total_spent, 0), where income
\* is that of a stored budget of the month (0 without one) and total_spent
\* the month's spend; it is never negative.
C3_Remaining ==
    IsSummary =>
        /\ IF BudgetsOf(SumMonth) = {} THEN SumBody.income = 0
           ELSE \E i \in BudgetsOf(SumMonth) : SumBody.income = db_budget[i].income
        /\ SumBody.total_spent = SumAmount(ExpensesOf(SumMonth))
        /\ SumBody.remaining >= 0
        /\ \/ SumBody.income - SumBody.total_spent >= 0
              /\ SumBody.remaining = SumBody.income - SumBody.total_spent
           \/ SumBody.income - SumBody.total_spent < 0
              /\ SumBody.remaining = 0

C3_Witness ==
    /\ IsSummary
    /\ BudgetsOf(SumMonth) # {}
    /\ SumBody.income > 0
    /\ SumBody.total_spent > SumBody.income
    /\ SumBody.remaining = 0

\* C4: for a month without a budget document the summary answers 200 with
\* income 0, total_target 0 and every row's target 0 and progress null.
C4_NoBudgetDefaults ==
    (IsSummary /\ BudgetsOf(SumMonth) = {}) =>
        /\ resp.status = 200
        /\ SumBody.income = 0
        /\ SumBody.total_target = 0
        /\ \A r \in RowIdx : SumRows[r].target = 0 /\ SumRows[r].progress = None

C4_Witness ==
    /\ IsSummary /\ resp.status = 200
    /\ BudgetsOf(SumMonth) = {}
    /\ db_budget # << >>
    /\ \E i \in ExpensesOf(SumMonth) : db_expense[i].amount > 0
    /\ Len(SumRows) >= 1

\* C5: every stored expense has amount >= 0 and every stored budget has
\* income >= 0 and allocation targets >= 0.
C5_StoredNonNegative ==
    /\ \A i \in 1 .. Len(db_expense) : db_expense[i].amount >= 0
    /\ \A i \in 1 .. Len(db_budget) :
          /\ db_budget[i].income >= 0
          /\ \A j \in 1 .. Len(db_budget[i].allocations) :
                db_budget[i].allocations[j].target >= 0

\* C6: total_spent is the sum of all the month's expenses, orphans included;
\* an orphan expense has no row, and the rows' spent values add up to
\* total_spent less the orphans' amounts.
C6_TotalSpentCountsOrphans ==
    IsSummary =>
        /\ SumBody.total_spent = SumAmount(ExpensesOf(SumMonth))
        /\ \A r \in RowIdx : SumRows[r].id \in StoredCategoryIds
        /\ Len(SumRows) = Len(db_category)
        /\ SumBody.total_spent - SumSpent(SumRows) = SumAmount(OrphanExpensesOf(SumMonth))

C6_Witness ==
    /\ IsSummary
    /\ Len(SumRows) >= 1
    /\ \E i \in OrphanExpensesOf(SumMonth) : db_expense[i].amount > 0
    /\ \E i \in ExpensesOf(SumMonth) : i \notin OrphanExpensesOf(SumMonth)

\* C7: the summary has exactly one row per stored category and no other row;
\* a row's spent is the sum of the expenses of that month and category.
C7_OneRowPerCategory ==
    IsSummary =>
        /\ \A c \in StoredCategoryIds : Cardinality({r \in RowIdx : SumRows[r].id = c}) = 1
        /\ \A r \in RowIdx :
              /\ \E i \in 1 .. Len(db_category) :
                    /\ SumRows[r].id = str(db_category[i]._id)
                    /\ SumRows[r].name = db_category[i].name
                    /\ SumRows[r].emoji = db_category[i].emoji
              /\ SumRows[r].spent = SumAmount(ExpensesOfCat(SumMonth, SumRows[r].id))

C7_Witness ==
    /\ IsSummary
    /\ \E r \in RowIdx :
          /\ Cardinality(ExpensesOfCat(SumMonth, SumRows[r].id)) = 2
          /\ \A i \in ExpensesOfCat(SumMonth, SumRows[r].id) : db_expense[i].amount = MaxAmount
          /\ SumRows[r].spent = 2 * MaxAmount

\* C8: a row's progress is null exactly when its target is 0; with a
\* positive target it is spent / target * 100.
C8_Progress ==
    IsSummary =>
        \A r \in RowIdx :
            /\ (SumRows[r].progress = None) <=> (SumRows[r].target = 0)
            /\ SumRows[r].target > 0 =>
                  /\ SumRows[r].progress # None
                  /\ SumRows[r].progress[1].den > 0
                  /\ SumRows[r].progress[1].num * SumRows[r].target
                       = SumRows[r].spent * 100 * SumRows[r].progress[1].den

C8_Witness ==
    /\ IsSummary
    /\ \E r \in RowIdx :
          /\ SumRows[r].target = 0
          /\ SumRows[r].spent > 0
          /\ SumRows[r].progress = None
          /\ \E i \in BudgetsOf(SumMonth) : SumRows[r].id \in AllocIds(db_budget[i].allocations)

\* C9: get_budget answers 404 exactly when no budget document of the month
\* is stored at its read, which happens between another call's delete_many
\* and its insert.
C9_GetNotFound ==
    resp.handler = "get_budget" =>
        /\ resp.status \in {200, 404}
        /\ (resp.status = 404) <=> (BudgetsOf(resp.arg[1]) = {})

C9_Witness ==
    /\ resp.handler = "get_budget" /\ resp.status = 404
    /\ \E p \in Procs :
          /\ pc[p] = "insert"
          /\ budget[p][1].month = resp.arg[1]
          /\ deleted[p] >= 1

\* C10: total_target is the sum, over the category_ids of the budget's
\* allocation list, of the last target listed for each; a row's target is the
\* last target listed for its category, 0 if there is none.
C10_LastWriteWins ==
    IsSummary =>
        LET Fits(allocs) ==
                /\ SumBody.total_target = SumLastTargets(allocs, AllocIds(allocs))
                /\ \A r \in RowIdx :
                      SumRows[r].target =
                          IF SumRows[r].id \in AllocIds(allocs)
                          THEN LastTarget(allocs, SumRows[r].id) ELSE 0
        IN  IF BudgetsOf(SumMonth) = {} THEN Fits(<< >>)
            ELSE \E i \in BudgetsOf(SumMonth) :
                    /\ SumBody.income = db_budget[i].income
                    /\ Fits(db_budget[i].allocations)

C10_Witness ==
    /\ IsSummary
    /\ Len(SumRows) >= 1
    /\ \E i \in BudgetsOf(SumMonth) :
          LET allocs == db_budget[i].allocations
          IN  /\ Len(allocs) = 2
              /\ allocs[1].category_id = allocs[2].category_id
              /\ allocs[1].target # allocs[2].target
              /\ allocs[1].category_id \in StoredCategoryIds

====
